---- MODULE Spec2Model ----
(***************************************************************************)
(* Model of src/src/extractor.py: the cell normalizer, the field coercers, *)
(* the header locator / column mapper, the row parser, the consistency     *)
(* validator, the issue reporter and extract_table_from_pdf.               *)
(*                                                                         *)
(* Text is modelled by TLA+ strings (Len, SubSeq and \o act on them        *)
(* character by character) over the characters up to U+00FF.  The three    *)
(* characters of the source beyond U+00FF, the two upper-case forms that   *)
(* str.upper() takes beyond U+00FF, and the non-breaking space have        *)
(* stand-ins, characters that no text of the model holds otherwise:        *)
(*     U+00A0 (no-break space)      is written  NBSP  = "~"                *)
(*     U+201D (right curly quote)   is written  RDQUO = "}"                *)
(*     U+201C (left curly quote)    is written  LDQUO = "{"                *)
(*     U+2033 (double prime)        is written  INCH_GLYPH = "^"           *)
(*     U+0178 (upper case of U+00FF) is written CAP_Y_DIAERESIS = "|"      *)
(*     U+039C (upper case of U+00B5) is written CAP_MU = "#"               *)
(* A missing text (Python's None where a string is expected) is NULL; a    *)
(* missing number is NONE, the empty tuple, and a number that is present   *)
(* is a tuple: <<n>> for the int n, <<n, k>> for the float n / 10^k, and   *)
(* INF, NEG_INF, NAN for the floats that are not finite.                   *)
(***************************************************************************)
EXTENDS Integers, Sequences, FiniteSets, TLC

VARIABLES
    pc,      \* position of the call under study: "start", then one value per step
    arg,     \* the argument the operation was called with
    res      \* what the operation returned (or the error it raised)

vars == <<pc, arg, res>>

NULL == "<None>"

NONE == <<>>

(***************************************************************************)
(* Characters and elementary string operations                             *)
(***************************************************************************)
NBSP == "~"
RDQUO == "}"
LDQUO == "{"
INCH_GLYPH == "^"
DQUOTE == "\""

\* the upper-case forms of U+00FF and U+00B5 lie beyond U+00FF: stand-ins
CAP_Y_DIAERESIS == "|"
CAP_MU == "#"

\* the blanks of C's isspace(): space, \t, \n, U+000B, \f and \r
ASCII_SPACE == {" ", "\t", "\n", "", "\f", "\r"}

\* the characters up to U+00FF that \s matches and str.strip() removes: these,
\* U+001C .. U+001F, U+0085 and the no-break space
UNICODE_SPACE == ASCII_SPACE \cup {"", "", "", "", "", NBSP}

Ch(s, i) == SubSeq(s, i, i)

Rest(s) == SubSeq(s, 2, Len(s))

\* Python's \s and str.isspace()
IsSpace(c) == c \in UNICODE_SPACE

IsDigit(c) == c \in {"0", "1", "2", "3", "4", "5", "6", "7", "8", "9"}

\* str.replace(a, b) for a single character a
RECURSIVE ReplaceChar(_, _, _)
ReplaceChar(s, a, b) ==
    IF s = "" THEN ""
    ELSE (IF Ch(s, 1) = a THEN b ELSE Ch(s, 1)) \o ReplaceChar(Rest(s), a, b)

\* a in s  (substring containment)
Contains(s, a) ==
    \E i \in 0..(Len(s) - Len(a)) : SubSeq(s, i + 1, i + Len(a)) = a

\* the letters up to U+00FF whose upper-case form is one character up to U+00FF
LOWER == "abcdefghijklmnopqrstuvwxyzàáâãäåæçèéêëìíîïðñòóôõöøùúûüýþ"
UPPER_OF ==
    [c \in {Ch(LOWER, i) : i \in 1..Len(LOWER)} |->
        Ch("ABCDEFGHIJKLMNOPQRSTUVWXYZÀÁÂÃÄÅÆÇÈÉÊËÌÍÎÏÐÑÒÓÔÕÖØÙÚÛÜÝÞ",
           CHOOSE i \in 1..Len(LOWER) : Ch(LOWER, i) = c)]
    @@ ("ß" :> "SS") @@ ("ÿ" :> CAP_Y_DIAERESIS) @@ ("µ" :> CAP_MU)

\* str.upper()
RECURSIVE Upper(_)
Upper(s) ==
    IF s = "" THEN ""
    ELSE (IF Ch(s, 1) \in DOMAIN UPPER_OF THEN UPPER_OF[Ch(s, 1)] ELSE Ch(s, 1))
         \o Upper(Rest(s))

\* str.strip()
RECURSIVE LStrip(_)
LStrip(s) == IF s # "" /\ IsSpace(Ch(s, 1)) THEN LStrip(Rest(s)) ELSE s

RECURSIVE RStrip(_)
RStrip(s) ==
    IF s # "" /\ IsSpace(Ch(s, Len(s))) THEN RStrip(SubSeq(s, 1, Len(s) - 1)) ELSE s

Strip(s) == RStrip(LStrip(s))

\* SPACES_RX.sub(" ", s): every maximal run of whitespace becomes one space
RECURSIVE CollapseSpaces(_)
CollapseSpaces(s) ==
    IF s = "" THEN ""
    ELSE IF IsSpace(Ch(s, 1))
         THEN " " \o CollapseSpaces(LStrip(s))
         ELSE Ch(s, 1) \o CollapseSpaces(Rest(s))

\* where a pattern that ends in $ may end: $ matches at the end of the text
\* and also right before a line feed that ends the text
BeforeFinalNewline(s) ==
    IF s # "" /\ Ch(s, Len(s)) = "\n" THEN SubSeq(s, 1, Len(s) - 1) ELSE s

(***************************************************************************)
(* normalize_inches, normalize_text                                        *)
(***************************************************************************)
INCH_VARIANTS == <<DQUOTE, DQUOTE, RDQUO, LDQUO, INCH_GLYPH>>

\* for v in INCH_VARIANTS: text = text.replace(v, '"').  Every variant is one
\* character and becomes the same character, so the replacements in turn
\* amount to one pass.
RECURSIVE ReplaceVariants(_)
ReplaceVariants(s) ==
    IF s = "" THEN ""
    ELSE (IF (\E i \in 1..Len(INCH_VARIANTS) : Ch(s, 1) = INCH_VARIANTS[i]) THEN DQUOTE ELSE Ch(s, 1))
         \o ReplaceVariants(Rest(s))

\* re.sub(r"\s+\"", "\"", text): a whitespace run right before a quote is removed
RECURSIVE DropSpaceBeforeQuote(_)
DropSpaceBeforeQuote(s) ==
    IF s = "" THEN ""
    ELSE IF IsSpace(Ch(s, 1))
         THEN LET t == LStrip(s)
              IN  IF t # "" /\ Ch(t, 1) = DQUOTE
                  THEN DropSpaceBeforeQuote(t)
                  ELSE SubSeq(s, 1, Len(s) - Len(t)) \o DropSpaceBeforeQuote(t)
         ELSE Ch(s, 1) \o DropSpaceBeforeQuote(Rest(s))

\* re.sub(r"(\d+(?:[\.,]\d+)?(?:/\d+(?:[\.,]\d+)?)?)\"", r"\1" + INCH_GLYPH, text):
\* the group ends in a digit and holds no quote, and a one-digit group already
\* matches, so the quotes rewritten are exactly those that follow a digit.
RECURSIVE GlyphAfterNumber(_, _)
GlyphAfterNumber(s, prev) ==
    IF s = "" THEN ""
    ELSE (IF Ch(s, 1) = DQUOTE /\ IsDigit(prev) THEN INCH_GLYPH ELSE Ch(s, 1))
         \o GlyphAfterNumber(Rest(s), Ch(s, 1))

normalize_inches(text) ==
    IF text = "" THEN text
    ELSE LET t1 == ReplaceVariants(text)
             t2 == DropSpaceBeforeQuote(t1)
             t3 == GlyphAfterNumber(t2, "")
         IN  ReplaceChar(t3, DQUOTE, INCH_GLYPH)

\* A normalizer that trims ASCII blanks before it rewrites the no-break space
normalize_text_trim_first(s) ==
    IF s = NULL THEN ""
    ELSE LET t == IF s # "" /\ Ch(s, Len(s)) = " " THEN SubSeq(s, 1, Len(s) - 1) ELSE s
             u == IF t # "" /\ Ch(t, 1) = " " THEN Rest(t) ELSE t
         IN  normalize_inches(CollapseSpaces(ReplaceChar(u, NBSP, " ")))

normalize_text(s) ==
    IF s = NULL THEN ""
    ELSE normalize_inches(Strip(CollapseSpaces(ReplaceChar(s, NBSP, " "))))

(***************************************************************************)
(* Numbers.  A Python float is kept as the decimal it was read from or     *)
(* rounded to: <<n, k>> stands for the double nearest to n / 10^k, with    *)
(* trailing zeros of the fraction dropped (1.50 = 1.5 = <<15, 1>>); the    *)
(* infinities and the NaN are INF, NEG_INF and NAN; -0.0 is <<0, 0>>, and  *)
(* below 2^-1022, where doubles are coarser than decimals of ten digits,   *)
(* several <<n, k>> stand for one double.  The integers n are 32-bit: a    *)
(* finite number for which n would exceed 2^31 - 1 has no value here (the  *)
(* evaluation stops with an overflow).                                     *)
(***************************************************************************)
INF == <<"inf">>
NEG_INF == <<"-inf">>
NAN == <<"nan">>

RECURSIVE Pow10(_)
Pow10(k) == IF k = 0 THEN 1 ELSE 10 * Pow10(k - 1)

RECURSIVE Dec(_, _)
Dec(n, k) == IF k > 0 /\ n % 10 = 0 THEN Dec(n \div 10, k - 1) ELSE <<n, k>>

AllDigits(s) == \A i \in 1..Len(s) : IsDigit(Ch(s, i))

DigitValue(c) == CHOOSE d \in 0..9 : Ch("0123456789", d + 1) = c

\* int(s) for a string of decimal digits
RECURSIVE DigitsToInt(_)
DigitsToInt(s) ==
    IF s = "" THEN 0
    ELSE 10 * DigitsToInt(SubSeq(s, 1, Len(s) - 1)) + DigitValue(Ch(s, Len(s)))

\* float() and int() drop the blanks at both ends: those of isspace() and the
\* blanks beyond ASCII; U+001C .. U+001F are not among them
NUMERIC_SPACE == ASCII_SPACE \cup {"", NBSP}

RECURSIVE NumStrip(_)
NumStrip(s) ==
    IF s # "" /\ Ch(s, 1) \in NUMERIC_SPACE THEN NumStrip(Rest(s))
    ELSE IF s # "" /\ Ch(s, Len(s)) \in NUMERIC_SPACE
         THEN NumStrip(SubSeq(s, 1, Len(s) - 1))
         ELSE s

\* an underscore is accepted only between two digits
UnderscoresOK(s) ==
    \A i \in 1..Len(s) :
        Ch(s, i) = "_" =>
            /\ i > 1 /\ IsDigit(Ch(s, i - 1))
            /\ i < Len(s) /\ IsDigit(Ch(s, i + 1))

RECURSIVE RemoveChar(_, _)
RemoveChar(s, a) ==
    IF s = "" THEN ""
    ELSE (IF Ch(s, 1) = a THEN "" ELSE Ch(s, 1)) \o RemoveChar(Rest(s), a)

\* index of the first character of s that is in set, 0 when there is none
FirstOf(s, set) ==
    IF \E i \in 1..Len(s) : Ch(s, i) \in set
    THEN CHOOSE i \in 1..Len(s) :
            Ch(s, i) \in set /\ \A j \in 1..(i - 1) : Ch(s, j) \notin set
    ELSE 0

RECURSIVE TrimZerosRight(_)
TrimZerosRight(s) ==
    IF s # "" /\ Ch(s, Len(s)) = "0" THEN TrimZerosRight(SubSeq(s, 1, Len(s) - 1))
    ELSE s

RECURSIVE TrimZerosLeft(_)
TrimZerosLeft(s) == IF s # "" /\ Ch(s, 1) = "0" THEN TrimZerosLeft(Rest(s)) ELSE s

(***************************************************************************)
(* Natural numbers of any size, for the arithmetic of doubles: a sequence  *)
(* of limbs in base 2^15, least significant first, without leading zeros   *)
(* (0 is the empty sequence).  Carries and remainders are passed through a *)
(* sequence by halving it, which keeps the evaluation shallow.             *)
(***************************************************************************)
LIMB_BITS == 15

RECURSIVE Pow2(_)
Pow2(k) == IF k = 0 THEN 1 ELSE 2 * Pow2(k - 1)

LIMB == Pow2(LIMB_BITS)

Max(S) == CHOOSE i \in S : \A j \in S : j <= i

RECURSIVE BigFromInt(_)
BigFromInt(n) == IF n = 0 THEN <<>> ELSE <<n % LIMB>> \o BigFromInt(n \div LIMB)

RECURSIVE BigToInt(_)
BigToInt(a) == IF a = <<>> THEN 0 ELSE a[1] + LIMB * BigToInt(Tail(a))

BigLimb(a, i) == IF i <= Len(a) THEN a[i] ELSE 0

BigTrim(a) ==
    LET used == {i \in 1..Len(a) : a[i] # 0}
    IN  IF used = {} THEN <<>> ELSE SubSeq(a, 1, Max(used))

\* columns[i] counts LIMB^(i - 1): <<the limbs of the columns plus the carry
\* coming in, the carry going out>>
RECURSIVE Carry(_, _)
Carry(columns, carry) ==
    IF Len(columns) = 0 THEN <<<<>>, carry>>
    ELSE IF Len(columns) = 1
         THEN <<<<(columns[1] + carry) % LIMB>>, (columns[1] + carry) \div LIMB>>
         ELSE LET half == Len(columns) \div 2
                  low == Carry(SubSeq(columns, 1, half), carry)
                  high == Carry(SubSeq(columns, half + 1, Len(columns)), low[2])
              IN  <<low[1] \o high[1], high[2]>>

BigOfColumns(columns) ==
    LET c == Carry(columns, 0)
    IN  BigTrim(c[1] \o BigFromInt(c[2]))

BigAdd(a, b) ==
    IF a = <<>> THEN b
    ELSE IF b = <<>> THEN a
    ELSE BigOfColumns([i \in 1..Max({Len(a), Len(b)}) |-> BigLimb(a, i) + BigLimb(b, i)])

\* a - b, for a >= b
BigSub(a, b) == BigOfColumns([i \in 1..Len(a) |-> a[i] - BigLimb(b, i)])

\* a * m, for a limb m
BigMulLimb(a, m) == BigOfColumns([i \in 1..Len(a) |-> a[i] * m])

\* a * 2^s
BigShiftLeft(a, s) ==
    IF a = <<>> THEN <<>>
    ELSE [i \in 1..(s \div LIMB_BITS) |-> 0] \o BigMulLimb(a, Pow2(s % LIMB_BITS))

RECURSIVE BigMul(_, _)
BigMul(a, b) ==
    IF Len(a) = 0 \/ Len(b) = 0 THEN <<>>
    ELSE IF Len(b) = 1 THEN BigMulLimb(a, b[1])
    ELSE LET half == Len(b) \div 2
         IN  BigAdd(BigMul(a, SubSeq(b, 1, half)),
                    BigShiftLeft(BigMul(a, SubSeq(b, half + 1, Len(b))), half * LIMB_BITS))

\* -1, 0 or 1 as a is below, equal to or above b
BigCmp(a, b) ==
    IF Len(a) # Len(b) THEN (IF Len(a) < Len(b) THEN -1 ELSE 1)
    ELSE LET differ == {i \in 1..Len(a) : a[i] # b[i]}
         IN  IF differ = {} THEN 0
             ELSE IF a[Max(differ)] < b[Max(differ)] THEN -1 ELSE 1

Reverse(s) == [i \in 1..Len(s) |-> s[Len(s) + 1 - i]]

\* long division by d, 1 <= d <= LIMB, of digits given from the highest down:
\* <<the digits of the quotient, the remainder>>, rem being the remainder
\* coming in
RECURSIVE DivideDigits(_, _, _)
DivideDigits(digits, d, rem) ==
    IF Len(digits) = 0 THEN <<<<>>, rem>>
    ELSE IF Len(digits) = 1
         THEN <<<<(rem * LIMB + digits[1]) \div d>>, (rem * LIMB + digits[1]) % d>>
         ELSE LET half == Len(digits) \div 2
                  high == DivideDigits(SubSeq(digits, 1, half), d, rem)
                  low == DivideDigits(SubSeq(digits, half + 1, Len(digits)), d, high[2])
              IN  <<high[1] \o low[1], low[2]>>

\* <<a \div d, a % d>> for 1 <= d <= LIMB
BigDivLimb(a, d) ==
    LET r == DivideDigits(Reverse(a), d, 0)
    IN  <<BigTrim(Reverse(r[1])), r[2]>>

\* <<a \div 2^s, whether a nonzero bit was dropped>>
BigShiftRight(a, s) ==
    LET limbs == IF s \div LIMB_BITS > Len(a) THEN Len(a) ELSE s \div LIMB_BITS
        d == BigDivLimb(SubSeq(a, limbs + 1, Len(a)), Pow2(s % LIMB_BITS))
    IN  <<d[1], d[2] # 0 \/ \E i \in 1..limbs : a[i] # 0>>

RECURSIVE BitLen(_)
BitLen(n) == IF n = 0 THEN 0 ELSE 1 + BitLen(n \div 2)

\* the integer nearest to x / 2, ties to the even one, where x is t[1], or
\* slightly more than t[1] when t[2] or inexact
RoundHalfEven(t, inexact) ==
    LET h == BigDivLimb(t[1], 2)
    IN  IF h[2] = 1 /\ (t[2] \/ inexact \/ (h[1] # <<>> /\ h[1][1] % 2 = 1))
        THEN BigAdd(h[1], <<1>>)
        ELSE h[1]

\* the integer nearest to x / 2^s, ties to the even one, where x is a, or
\* slightly more than a when inexact
BigRoundShift(a, s, inexact) ==
    IF s <= 0 THEN BigShiftLeft(a, 0 - s)
    ELSE RoundHalfEven(BigShiftRight(a, s - 1), inexact)

\* <<a \div 10^k, whether the division left a remainder>>: dividing by 10^i
\* and then by 10^j divides by 10^(i + j)
RECURSIVE BigDivPow10(_, _)
BigDivPow10(a, k) ==
    IF a = <<>> THEN <<a, FALSE>>
    ELSE IF k <= 4
         THEN LET d == BigDivLimb(a, Pow10(k)) IN <<d[1], d[2] # 0>>
         ELSE LET first == BigDivPow10(a, k \div 2)
                  second == BigDivPow10(first[1], k - k \div 2)
              IN  <<second[1], first[2] \/ second[2]>>

(***************************************************************************)
(* Binary floating point (IEEE 754 binary64, round to nearest even).  The  *)
(* magnitude of a finite double is <<M, q>>, the number M * 2^q with M a   *)
(* natural number of at most 53 bits and q >= -1074; zero is M = <<>>,     *)
(* with any q.                                                             *)
(***************************************************************************)
SIGNIFICAND_BITS == 53

MIN_EXPONENT == -1074

Abs(n) == IF n < 0 THEN 0 - n ELSE n

\* the double nearest to x = N * 2^q (or slightly more than that when inexact)
Nearest(N, q, inexact) ==
    IF N = <<>> THEN <<<<>>, 0>>
    ELSE LET bits == LIMB_BITS * (Len(N) - 1) + BitLen(N[Len(N)])
             s == IF q + bits - SIGNIFICAND_BITS < MIN_EXPONENT
                  THEN MIN_EXPONENT - q
                  ELSE bits - SIGNIFICAND_BITS
         IN  <<BigRoundShift(N, s, inexact), q + s>>

\* n / 10^k is below 2^-1075, half the smallest double, for every n here
UNDERFLOW_PLACES == 340

\* the double nearest to n / 10^k, for n >= 0: the quotient n * 2^p / 10^k is
\* taken with p large enough for it to have 60 bits or more, where 53 are kept
DoubleOf(n, k) ==
    IF n = 0 \/ k > UNDERFLOW_PLACES THEN <<<<>>, 0>>
    ELSE LET p == 4 * k + 60
             d == BigDivPow10(BigShiftLeft(BigFromInt(n), p), k)
         IN  Nearest(d[1], 0 - p, d[2])

\* the M of the magnitude x when it is written with the lower of the
\* exponents of x and y
Aligned(x, y) == BigShiftLeft(x[1], x[2] - (IF x[2] < y[2] THEN x[2] ELSE y[2]))

\* x <= y for two magnitudes
DoubleLeq(x, y) == BigCmp(Aligned(x, y), Aligned(y, x)) <= 0

\* vu * qt, a float times an int: the magnitude of the product
DoubleTimesInt(x, qt) == Nearest(BigMul(x[1], BigFromInt(Abs(qt))), x[2], FALSE)

\* round(x, 2) for a magnitude x, in hundredths: the decimal with two places
\* nearest to the double itself, ties to the even one
RoundToCents(x) == BigToInt(BigRoundShift(BigMulLimb(x[1], 100), 0 - x[2], FALSE))

\* round(vu * qt, 2)
RoundedProduct(vu, qt) ==
    IF vu \in {INF, NEG_INF, NAN}
    THEN IF vu = NAN \/ qt = 0 THEN NAN
         ELSE IF (vu = INF) = (qt > 0) THEN INF ELSE NEG_INF
    ELSE LET cents == RoundToCents(DoubleTimesInt(DoubleOf(Abs(vu[1]), vu[2]), qt))
         IN  Dec(IF (vu[1] < 0) # (qt < 0) THEN 0 - cents ELSE cents, 2)

\* the double nearest to (X + Y) * 2^q when the signs are opposite, and to
\* the absolute value of (X - Y) * 2^q otherwise
AlignedDifference(X, Y, q, opposite) ==
    Nearest(IF opposite THEN BigAdd(X, Y)
            ELSE IF BigCmp(X, Y) >= 0 THEN BigSub(X, Y) ELSE BigSub(Y, X),
            q, FALSE)

\* the magnitude of the rounded difference of two doubles of magnitudes x
\* and y, of opposite signs or not
MagnitudeDifference(x, y, opposite) ==
    AlignedDifference(Aligned(x, y), Aligned(y, x),
                      IF x[2] < y[2] THEN x[2] ELSE y[2], opposite)

\* abs(a - b) for two finite floats
AbsDifference(a, b) ==
    MagnitudeDifference(DoubleOf(Abs(a[1]), a[2]), DoubleOf(Abs(b[1]), b[2]),
                        (a[1] < 0) # (b[1] < 0))

\* the literal 0.05
TOLERANCE == <<5, 2>>

\* abs(calc - vt) <= 0.05; a comparison with an infinity or a NaN on the left
\* is false
AbsDiffWithinTolerance(calc, vt) ==
    IF calc \in {INF, NEG_INF, NAN} \/ vt \in {INF, NEG_INF, NAN} THEN FALSE
    ELSE DoubleLeq(AbsDifference(calc, vt), DoubleOf(TOLERANCE[1], TOLERANCE[2]))

\* a float with two decimals, from its hundredths
FromCents(c) == Dec(c, 2)

(***************************************************************************)
(* float(), parse_money, parse_int                                         *)
(***************************************************************************)
\* 10^k is above the largest double, which is below 2^1024, for every k beyond
OVERFLOW_PLACES == 308

\* an exponent of more digits overflows or underflows like 10^9
MAX_EXPONENT_DIGITS == 9

\* the float nearest to digits * 10^scale, for digits without leading zeros
ScaledDigits(digits, scale) ==
    IF digits = "" THEN <<0, 0>>
    ELSE IF scale > OVERFLOW_PLACES THEN INF
    ELSE IF scale >= 0 THEN Dec(DigitsToInt(digits) * Pow10(scale), 0)
    ELSE IF DoubleOf(DigitsToInt(digits), 0 - scale)[1] = <<>> THEN <<0, 0>>
    ELSE Dec(DigitsToInt(digits), 0 - scale)

\* the exponent's value, the sign apart
ExponentValue(e_digits) ==
    IF Len(e_digits) > MAX_EXPONENT_DIGITS THEN Pow10(MAX_EXPONENT_DIGITS)
    ELSE DigitsToInt(e_digits)

\* the float written whole "." fraction "e" exponent
FloatOfParts(whole, fraction, exponent) ==
    LET exp_digits == IF exponent # "" /\ Ch(exponent, 1) \in {"+", "-"}
                      THEN Rest(exponent) ELSE exponent
        x == ExponentValue(TrimZerosLeft(exp_digits))
    IN  IF ~(/\ AllDigits(whole) /\ AllDigits(fraction) /\ whole \o fraction # ""
             /\ exp_digits # "" /\ AllDigits(exp_digits))
        THEN NONE
        ELSE ScaledDigits(TrimZerosLeft(whole \o TrimZerosRight(fraction)),
                          (IF Ch(exponent, 1) = "-" THEN 0 - x ELSE x)
                              - Len(TrimZerosRight(fraction)))

\* float(t) for an unsigned decimal literal: digits with at most one ".", at
\* least one digit, and possibly an exponent (e or E, a sign, digits); a value
\* that rounds to zero is 0.0
UnsignedFloat(t) ==
    LET e == FirstOf(t, {"e", "E"})
        mantissa == IF e = 0 THEN t ELSE SubSeq(t, 1, e - 1)
        dot == FirstOf(mantissa, {"."})
    IN  FloatOfParts(IF dot = 0 THEN mantissa ELSE SubSeq(mantissa, 1, dot - 1),
                     IF dot = 0 THEN "" ELSE SubSeq(mantissa, dot + 1, Len(mantissa)),
                     IF e = 0 THEN "0" ELSE SubSeq(t, e + 1, Len(t)))

\* v, or -v when neg
Signed(v, neg) ==
    IF v = NONE \/ ~neg THEN v
    ELSE IF v = INF THEN NEG_INF
    ELSE <<0 - v[1], v[2]>>

\* float(s): a ValueError is NONE
PyFloat(s) ==
    LET t == NumStrip(s)
        signed == t # "" /\ Ch(t, 1) \in {"+", "-"}
        body == IF signed THEN Rest(t) ELSE t
    IN  IF ~UnderscoresOK(t) THEN NONE
        ELSE IF Upper(body) \in {"INF", "INFINITY"}
             THEN Signed(INF, Ch(t, 1) = "-")
        ELSE IF Upper(body) = "NAN" THEN NAN
        ELSE Signed(UnsignedFloat(RemoveChar(body, "_")), signed /\ Ch(t, 1) = "-")

\* CURRENCY_RX.sub("", s): every "R$" and the whitespace after it is removed
RECURSIVE StripCurrency(_)
StripCurrency(s) ==
    IF s = "" THEN ""
    ELSE IF Len(s) >= 2 /\ SubSeq(s, 1, 2) = "R$"
         THEN StripCurrency(LStrip(SubSeq(s, 3, Len(s))))
         ELSE Ch(s, 1) \o StripCurrency(Rest(s))

parse_money(s0) ==
    IF s0 = NULL \/ s0 = "" THEN NONE
    ELSE LET s1 == normalize_text(s0)
         IN  IF Upper(s1) = "R$" THEN NONE
             ELSE PyFloat(ReplaceChar(RemoveChar(StripCurrency(s1), "."), ",", "."))

\* INT_RX = ^\d{1,4}$
INT_RX_MAX_DIGITS == 4

\* INT_RX.match(s)
INT_RX_match(s) ==
    LET digits == BeforeFinalNewline(s)
    IN  Len(digits) >= 1 /\ Len(digits) <= INT_RX_MAX_DIGITS /\ AllDigits(digits)

\* int(s) for a text that INT_RX matches is its digits, the blanks around them
\* dropped
parse_int(s0) ==
    LET s == normalize_text(s0)
    IN  IF INT_RX_match(s) THEN <<DigitsToInt(NumStrip(s))>> ELSE NONE

(***************************************************************************)
(* validate_and_fix, build_issues                                          *)
(***************************************************************************)
FixTotal(rec, calc) ==
    IF rec.valor_total = NONE \/ AbsDiffWithinTolerance(calc, rec.valor_total)
    THEN [rec EXCEPT !.valor_total = calc]
    ELSE rec

validate_and_fix(rec) ==
    IF rec.valor_unit # NONE /\ rec.quant # NONE
    THEN FixTotal(rec, RoundedProduct(rec.valor_unit, rec.quant[1]))
    ELSE rec

UNIT_SET ==
    {"UN", "CJ", "UM", "M", "BAR", "TUB", "CX", "KIT", "PAR", "PÇ", "PC", "JG",
     "KG", "LT", "L", "G", "MM", "CM", "MT", "ROL", "SAC", "FD", "SC", "TB", "BL",
     "CONJ"}

ISSUE_FIELDS == <<"item", "descricao", "unid", "quant", "valor_unit", "valor_total">>

\* v in (None, "")
IsMissing(rec, k) ==
    IF k \in {"descricao", "unid"} THEN rec[k] = "" \/ rec[k] = NULL
    ELSE rec[k] = NONE

RowSnapshot(rec) ==
    [descricao |-> rec.descricao, unid |-> rec.unid, quant |-> rec.quant,
     valor_unit |-> rec.valor_unit, valor_total |-> rec.valor_total]

\* An issue reporter that stops at the first missing field
MissingFields_first_only(rec) ==
    LET all == SelectSeq(ISSUE_FIELDS, LAMBDA k : IsMissing(rec, k))
    IN  IF all = <<>> THEN <<>> ELSE <<all[1]>>

MissingFields(rec) == SelectSeq(ISSUE_FIELDS, LAMBDA k : IsMissing(rec, k))

\* None is NONE; an issue is a record with the keys of the returned dict
build_issues(rec) ==
    LET missing == MissingFields(rec)
    IN  IF missing = <<>>
        THEN LET unid == Upper(rec.unid)
             IN  IF unid # "" /\ unid \notin UNIT_SET
                 THEN [item |-> rec.item,
                       warning |-> "Unidade '" \o unid \o "' fora da lista conhecida",
                       row |-> RowSnapshot(rec)]
                 ELSE NONE
        ELSE [item |-> rec.item, missing |-> missing, row |-> RowSnapshot(rec)]

(***************************************************************************)
(* Header locator and column mapper.  Row and column indices are 0-based,  *)
(* as in the source; rows[i + 1] is the source's rows[i].                  *)
(***************************************************************************)
CANON_KEYS == <<"ITEM", "DESCRIÇÃO", "UNID.", "QUANT.", "VALOR UNIT.", "VALOR TOTAL">>

HEADER_ALIASES ==
    [ITEM |-> {"ITEM", "ITEN", "ITENS"}] @@
    ("DESCRIÇÃO" :> {"DESCRIÇÃO", "DESCRICAO", "DESCRIÇÃO/ESPECIFICAÇÃO", "DESCRIÇÃO DO ITEM"}) @@
    ("UNID." :> {"UNID.", "UNIDADE", "UND", "UNID"}) @@
    ("QUANT." :> {"QUANT.", "QTD", "QUANTIDADE"}) @@
    ("VALOR UNIT." :> {"VALOR UNIT.", "VALOR UNITARIO", "VALOR UNITÁRIO", "VLR UNIT.",
                       "PREÇO UNIT.", "PREÇO UNIT"}) @@
    ("VALOR TOTAL" :> {"VALOR TOTAL", "VLR TOTAL", "TOTAL", "PREÇO TOTAL"})

_header_match_score(cell, target_key) ==
    LET cell_u == Upper(normalize_text(cell))
    IN  IF \E alias \in HEADER_ALIASES[target_key] : Contains(cell_u, alias) THEN 1 ELSE 0

\* the score of one row: the keys that some cell of the row matches
RowScore(row) ==
    Cardinality({k \in 1..Len(CANON_KEYS) :
        \E j \in 1..Len(row) : _header_match_score(row[j], CANON_KEYS[k]) = 1})

\* A scan in which a later row of equal score replaces the earlier one
RECURSIVE ScanRows_last_wins(_, _, _, _)
ScanRows_last_wins(rows, i, best_idx, best_score) ==
    IF i >= Len(rows) THEN <<best_idx, best_score>>
    ELSE LET score == RowScore(rows[i + 1])
         IN  IF score >= best_score
             THEN ScanRows_last_wins(rows, i + 1, i, score)
             ELSE ScanRows_last_wins(rows, i + 1, best_idx, best_score)

\* the loop of detect_header_and_map from row i on: <<best_idx, best_score>>
RECURSIVE ScanRows(_, _, _, _)
ScanRows(rows, i, best_idx, best_score) ==
    IF i >= Len(rows) THEN <<best_idx, best_score>>
    ELSE LET score == RowScore(rows[i + 1])
         IN  IF score > best_score
             THEN ScanRows(rows, i + 1, i, score)
             ELSE ScanRows(rows, i + 1, best_idx, best_score)

\* A column search that keeps the last matching column
_find_col_index_rightmost(header_row, key) ==
    LET hits == {j \in 0..(Len(header_row) - 1) :
                    _header_match_score(header_row[j + 1], key) = 1}
    IN  IF hits = {} THEN NONE ELSE <<CHOOSE j \in hits : \A h \in hits : h <= j>>

\* the first column, left to right, whose text holds an alias of key
_find_col_index(header_row, key) ==
    LET hits == {j \in 0..(Len(header_row) - 1) :
                    \E alias \in HEADER_ALIASES[key] :
                        Contains(Upper(normalize_text(header_row[j + 1])), alias)}
    IN  IF hits = {} THEN NONE ELSE <<CHOOSE j \in hits : \A h \in hits : j <= h>>

HEADER_MIN_SCORE == 4

HEADER_NOT_FOUND == "Cabeçalho da tabela não foi encontrado com confiança suficiente."

COLUMNS_UNMAPPED == "Não foi possível mapear todas as colunas: faltam"

NO_MAP == [k \in {} |-> 0]

\* The result: error is "" and col_map the map on return; on a ValueError,
\* error is its message, missing the list it names, and nothing is returned.
\* best_idx and best_score are the locals of that name after the loop.
\* MapColumns is the part after the loop's result has passed the threshold.
MapColumns(rows, best_idx, best_score) ==
    LET header_row == rows[best_idx + 1]
        col_map == [k \in {CANON_KEYS[i] : i \in {j \in 1..Len(CANON_KEYS) :
                                _find_col_index(header_row, CANON_KEYS[j]) # NONE}} |->
                        _find_col_index(header_row, k)[1]]
        missing == SelectSeq(CANON_KEYS, LAMBDA k : k \notin DOMAIN col_map)
    IN  IF missing # <<>>
        THEN [error |-> COLUMNS_UNMAPPED, best_idx |-> best_idx,
              best_score |-> best_score, col_map |-> NO_MAP, missing |-> missing]
        ELSE [error |-> "", best_idx |-> best_idx, best_score |-> best_score,
              col_map |-> col_map, missing |-> <<>>]

HeaderAt(rows, best_idx, best_score) ==
    IF best_idx < 0 \/ best_score < HEADER_MIN_SCORE
    THEN [error |-> HEADER_NOT_FOUND, best_idx |-> best_idx, best_score |-> best_score,
          col_map |-> NO_MAP, missing |-> <<>>]
    ELSE MapColumns(rows, best_idx, best_score)

detect_header_and_map(rows) ==
    LET best == ScanRows(rows, 0, -1, -1)
    IN  HeaderAt(rows, best[1], best[2])

(***************************************************************************)
(* Row parser                                                              *)
(***************************************************************************)
IsAmountChar(c) == IsDigit(c) \/ c \in {".", ","}

\* t is all of R\$\s*[\d\.\,]+ (IGNORECASE)
IsCurrencyAmount(t) ==
    /\ Len(t) >= 3
    /\ Upper(SubSeq(t, 1, 2)) = "R$"
    /\ LET digits == LStrip(SubSeq(t, 3, Len(t)))
       IN  digits # "" /\ \A i \in 1..Len(digits) : IsAmountChar(Ch(digits, i))

\* t is all of VALOR\s+TOTAL\s*R\$\s*[\d\.\,]+ (IGNORECASE)
IsValorTotalAmount(t) ==
    /\ Len(t) >= 5
    /\ Upper(SubSeq(t, 1, 5)) = "VALOR"
    /\ LET after_valor == SubSeq(t, 6, Len(t))
           total == LStrip(after_valor)
       IN  /\ Len(total) < Len(after_valor)
           /\ Len(total) >= 5
           /\ Upper(SubSeq(total, 1, 5)) = "TOTAL"
           /\ IsCurrencyAmount(LStrip(SubSeq(total, 6, Len(total))))

\* VALOR_TOTAL_SUFFIX_RX.sub("", text): the pattern is anchored at the end, so
\* the earliest suffix that matches is cut off; "$" is the end of the text or
\* the place before a final line feed, which then stays
CutValorTotalSuffix(text) ==
    LET body == BeforeFinalNewline(text)
        starts == {i \in 1..Len(body) : IsValorTotalAmount(SubSeq(body, i, Len(body)))}
    IN  IF starts = {} THEN text
        ELSE SubSeq(body, 1, (CHOOSE i \in starts : \A j \in starts : i <= j) - 1)
             \o SubSeq(text, Len(BeforeFinalNewline(text)) + 1, Len(text))

\* VALOR_PRECO_TRAILING_RX.sub("", text)
CutCurrencySuffix(text) ==
    LET body == BeforeFinalNewline(text)
        starts == {i \in 1..Len(body) : IsCurrencyAmount(SubSeq(body, i, Len(body)))}
    IN  IF starts = {} THEN text
        ELSE SubSeq(body, 1, (CHOOSE i \in starts : \A j \in starts : i <= j) - 1)
             \o SubSeq(text, Len(BeforeFinalNewline(text)) + 1, Len(text))

strip_valor_total_from_desc(text) ==
    IF text = "" THEN text
    ELSE LET t1 == Strip(CutValorTotalSuffix(text))
         IN  Strip(CutCurrencySuffix(t1))

\* str.rstrip(".,")
RECURSIVE RStripPunct(_)
RStripPunct(s) ==
    IF s # "" /\ Ch(s, Len(s)) \in {".", ","}
    THEN RStripPunct(SubSeq(s, 1, Len(s) - 1))
    ELSE s

parse_row_with_map(row, col_map) ==
    LET get(key) == IF col_map[key] < Len(row)
                    THEN normalize_text(row[col_map[key] + 1])
                    ELSE ""
    IN  [item |-> parse_int(get("ITEM")),
         descricao |-> strip_valor_total_from_desc(get("DESCRIÇÃO")),
         unid |-> RStripPunct(Upper(normalize_text(get("UNID.")))),
         quant |-> parse_int(get("QUANT.")),
         valor_unit |-> parse_money(get("VALOR UNIT.")),
         valor_total |-> parse_money(get("VALOR TOTAL"))]

(***************************************************************************)
(* Collector, terminator, sorter: extract_table_from_pdf                   *)
(***************************************************************************)
\* " ".join(...)
RECURSIVE Join(_)
Join(cells) ==
    IF cells = <<>> THEN ""
    ELSE IF Len(cells) = 1 THEN cells[1]
    ELSE cells[1] \o " " \o Join(Tail(cells))

RECURSIVE UpperCells(_)
UpperCells(row) ==
    IF row = <<>> THEN <<>>
    ELSE <<Upper(normalize_text(Head(row)))>> \o UpperCells(Tail(row))

looks_like_total_row(row) ==
    LET joined == Join(UpperCells(row))
    IN  Contains(joined, "VALOR TOTAL") /\ parse_money(joined) # NONE

\* [normalize_text(c) for c in (raw_row or [])]
RECURSIVE NormalizeRow(_)
NormalizeRow(raw_row) ==
    IF raw_row = <<>> THEN <<>>
    ELSE <<normalize_text(Head(raw_row))>> \o NormalizeRow(Tail(raw_row))

AnyCell(row) == \E j \in 1..Len(row) : row[j] # ""

\* A collector that keeps the rows without any text
RECURSIVE AllRows_keep_blank(_)
AllRows_keep_blank(raw_rows) ==
    IF raw_rows = <<>> THEN <<>>
    ELSE <<NormalizeRow(Head(raw_rows))>> \o AllRows_keep_blank(Tail(raw_rows))

\* all_rows: the rows of every table of every page, in order, normalized,
\* without the rows that hold no text.  A raw row that is None is <<>>.
RECURSIVE AllRows(_)
AllRows(raw_rows) ==
    IF raw_rows = <<>> THEN <<>>
    ELSE LET row == NormalizeRow(Head(raw_rows))
         IN  (IF AnyCell(row) THEN <<row>> ELSE <<>>) \o AllRows(Tail(raw_rows))

\* data_rows: the rows from position i on, up to the first total row
RECURSIVE DataRows(_, _)
DataRows(all_rows, i) ==
    IF i >= Len(all_rows) THEN <<>>
    ELSE LET row == all_rows[i + 1]
         IN  IF row = <<>> \/ ~(\E j \in 1..Len(row) : normalize_text(row[j]) # "")
             THEN DataRows(all_rows, i + 1)
             ELSE IF looks_like_total_row(row) THEN <<>>
             ELSE <<row>> \o DataRows(all_rows, i + 1)

RECURSIVE Blanks(_)
Blanks(n) == IF n <= 0 THEN <<>> ELSE <<"">> \o Blanks(n - 1)

SafeRow(row, col_map) ==
    LET max_idx == Max({col_map[k] : k \in DOMAIN col_map})
    IN  IF Len(row) <= max_idx THEN row \o Blanks(max_idx + 1 - Len(row)) ELSE row

\* rec["unid"] upper-cased and stripped of trailing punctuation
UpperUnid(rec) == [rec EXCEPT !.unid = RStripPunct(Upper(rec.unid))]

\* the record appended for one data row
RecordOf(row, col_map) ==
    UpperUnid(validate_and_fix(parse_row_with_map(SafeRow(row, col_map), col_map)))

RECURSIVE Records(_, _)
Records(data_rows, col_map) ==
    IF data_rows = <<>> THEN <<>>
    ELSE <<RecordOf(Head(data_rows), col_map)>> \o Records(Tail(data_rows), col_map)

\* issues.append(issue) if there is one
IssueList(issue) == IF issue # NONE THEN <<issue>> ELSE <<>>

RECURSIVE Issues(_, _)
Issues(data_rows, col_map) ==
    IF data_rows = <<>> THEN <<>>
    ELSE IssueList(build_issues(validate_and_fix(
                       parse_row_with_map(SafeRow(Head(data_rows), col_map), col_map))))
         \o Issues(Tail(data_rows), col_map)

NO_ITEM_KEY == 1000000000

\* A sort key that puts the records without item number first
SortKey_null_first(rec) == IF rec.item # NONE THEN rec.item[1] ELSE -1

\* lambda x: (x["item"] if x["item"] is not None else 10 ** 9,)
SortKey(rec) == IF rec.item # NONE THEN rec.item[1] ELSE NO_ITEM_KEY

\* list.sort is stable: a record goes after the records whose key is not larger
RECURSIVE InsertSorted(_, _)
InsertSorted(sorted, rec) ==
    IF sorted = <<>> THEN <<rec>>
    ELSE IF SortKey(Head(sorted)) <= SortKey(rec)
         THEN <<Head(sorted)>> \o InsertSorted(Tail(sorted), rec)
         ELSE <<rec>> \o sorted

RECURSIVE SortRecords(_)
SortRecords(records) ==
    IF records = <<>> THEN <<>>
    ELSE InsertSorted(SortRecords(SubSeq(records, 1, Len(records) - 1)),
                      records[Len(records)])

NO_TABLE == "Nenhuma tabela encontrada no PDF."

\* The result.  raised is "" on return and the ValueError's message otherwise
\* (then nothing is returned: rows and issues are empty); header tells whether
\* detect_header_and_map was called; scanned is the local list records before
\* it is sorted.  ExtractRows is the function from all_rows on, ScanFrom from
\* the header on, Returned its last statements.
Returned(found, data_rows, records) ==
    [raised |-> "", rows |-> SortRecords(records),
     issues |-> Issues(data_rows, found.col_map),
     header |-> "called", header_idx |-> found.best_idx, scanned |-> records]

ScanFrom(all_rows, found) ==
    IF found.error # ""
    THEN [raised |-> found.error, rows |-> <<>>, issues |-> <<>>,
          header |-> "called", header_idx |-> -1, scanned |-> <<>>]
    ELSE LET data_rows == DataRows(all_rows, found.best_idx + 1)
         IN  Returned(found, data_rows, Records(data_rows, found.col_map))

ExtractRows(all_rows) ==
    IF all_rows = <<>>
    THEN [raised |-> "", rows |-> <<>>, issues |-> <<[error |-> NO_TABLE]>>,
          header |-> "not called", header_idx |-> -1, scanned |-> <<>>]
    ELSE ScanFrom(all_rows, detect_header_and_map(all_rows))

extract_table_from_pdf(raw_rows) == ExtractRows(AllRows(raw_rows))

(***************************************************************************)
(* Bounded input sets                                                      *)
(***************************************************************************)
RECURSIVE StringsOver(_, _)
StringsOver(alphabet, n) ==
    IF n = 0 THEN {""}
    ELSE LET p == StringsOver(alphabet, n - 1)
         IN  p \cup {s \o c : s \in p, c \in alphabet}

MaxTextLen == 5

TextInputs == StringsOver({" ", NBSP, "\n", DQUOTE, RDQUO, INCH_GLYPH, "1", "a", "/"},
                 MaxTextLen) \cup {NULL}

(***************************************************************************)
(* Specification of normalize_text applied once and then again             *)
(***************************************************************************)
InitText ==
    /\ pc = "start"
    /\ arg \in TextInputs
    /\ res = NULL

Normalize ==
    /\ pc = "start"
    /\ pc' = "normalized"
    /\ res' = normalize_text(arg)
    /\ UNCHANGED arg

Renormalize ==
    /\ pc = "normalized"
    /\ pc' = "renormalized"
    /\ arg' = res
    /\ res' = normalize_text(res)

NextText == Normalize \/ Renormalize

SpecText == InitText /\ [][NextText]_vars

\* C10: normalize_text is idempotent: normalizing the result of normalize_text
\* gives that result again.
C10_NormalizeIdempotent == pc = "renormalized" => res = arg

\* an input with a no-break space, a blank before an inch mark and a digit
\* before an inch mark has been normalized twice
C10_Witness ==
    /\ pc = "renormalized"
    /\ Contains(res, "1" \o INCH_GLYPH)
    /\ Contains(res, "a" \o INCH_GLYPH)
    /\ ~Contains(res, " ")

(***************************************************************************)
(* Specification of parse_money applied to one cell text                   *)
(***************************************************************************)
MaxMoneyLen == 4

MoneyExamples == {"2.277,92", "49.52", "R$ 12.345,67", "R$ 49,52", "1.234.567,8"}

MoneyInputs == StringsOver({"4", "9", "0", ".", ",", " ", "R", "$"},
                 MaxMoneyLen) \cup MoneyExamples

InitMoney ==
    /\ pc = "start"
    /\ arg \in MoneyInputs
    /\ res = NONE

ParseMoney ==
    /\ pc = "start"
    /\ pc' = "money_parsed"
    /\ res' = parse_money(arg)
    /\ UNCHANGED arg

NextMoney == ParseMoney

SpecMoney == InitMoney /\ [][NextMoney]_vars

C3_IsSeparator(c) == c \in {".", ","}

\* digits and separators only, a digit at both ends, no two separators adjacent
C3_PlainAmount(s) ==
    /\ s # ""
    /\ \A i \in 1..Len(s) : IsDigit(Ch(s, i)) \/ C3_IsSeparator(Ch(s, i))
    /\ IsDigit(Ch(s, 1)) /\ IsDigit(Ch(s, Len(s)))
    /\ \A i \in 1..(Len(s) - 1) : ~(C3_IsSeparator(Ch(s, i)) /\ C3_IsSeparator(Ch(s, i + 1)))

C3_CountChar(s, c) == Cardinality({i \in 1..Len(s) : Ch(s, i) = c})

\* both separators: one "," and every "." before it
C3_BothSeparators(s) ==
    /\ C3_PlainAmount(s)
    /\ C3_CountChar(s, ",") = 1
    /\ C3_CountChar(s, ".") >= 1
    /\ \A i, j \in 1..Len(s) : Ch(s, i) = "." /\ Ch(s, j) = "," => i < j

C3_OnlyComma(s) == C3_PlainAmount(s) /\ C3_CountChar(s, ",") = 1 /\ C3_CountChar(s, ".") = 0

C3_OnlyDot(s) == C3_PlainAmount(s) /\ C3_CountChar(s, ".") = 1 /\ C3_CountChar(s, ",") = 0

\* C3: parse_money disambiguates the separators: with both, "." groups
\* thousands and "," is the decimal separator; "," alone is the decimal
\* separator; "." alone is already the decimal separator ("49.52" is 49.52).
C3_SeparatorsDisambiguated ==
    pc = "money_parsed" =>
        /\ C3_BothSeparators(arg) =>
              res = PyFloat(ReplaceChar(RemoveChar(arg, "."), ",", "."))
        /\ C3_OnlyComma(arg) => res = PyFloat(ReplaceChar(arg, ",", "."))
        /\ C3_OnlyDot(arg) => res = PyFloat(arg)

(***************************************************************************)
(* Specification of parse_int applied to one cell text                     *)
(***************************************************************************)
MaxIntLen == 5

IntInputs == StringsOver({"1", "2", "0", ".", ",", " ", "a"},
                 MaxIntLen) \cup {NULL}

InitInt ==
    /\ pc = "start"
    /\ arg \in IntInputs
    /\ res = NONE

ParseInt ==
    /\ pc = "start"
    /\ pc' = "int_parsed"
    /\ res' = parse_int(arg)
    /\ UNCHANGED arg

NextInt == ParseInt

SpecInt == InitInt /\ [][NextInt]_vars

RECURSIVE C9_DigitsOf(_)
C9_DigitsOf(s) ==
    IF s = "" THEN ""
    ELSE (IF IsDigit(Ch(s, 1)) THEN Ch(s, 1) ELSE "") \o C9_DigitsOf(Rest(s))

\* digits followed by the decimal remnant ".0" or ",0"
C9_HasZeroRemnant(s) ==
    /\ Len(s) >= 3
    /\ SubSeq(s, Len(s) - 1, Len(s)) \in {".0", ",0"}
    /\ AllDigits(SubSeq(s, 1, Len(s) - 2))

\* C9: parse_int is tolerant: digits with a trailing ".0" or ",0" are that
\* integer; otherwise every non-digit character is dropped and the digits
\* left are parsed; the result is null only when no digit is left.
C9_TolerantInt ==
    pc = "int_parsed" =>
        LET s == normalize_text(arg)
        IN  IF C9_HasZeroRemnant(s)
            THEN res = <<DigitsToInt(SubSeq(s, 1, Len(s) - 2))>>
            ELSE IF C9_DigitsOf(s) = "" THEN res = NONE
                 ELSE res = <<DigitsToInt(C9_DigitsOf(s))>>

(***************************************************************************)
(* Specification of validate_and_fix applied to one parsed record          *)
(***************************************************************************)
MaxQuant == 3

MaxSmallTotal == 40

\* unit prices in cents; 1000 is the 10.00 of the documented example
UnitPriceCents == {0, 5, 10, 12, 1000}

\* extracted totals in cents: small ones, and those around 30.00
TotalCents == 0..MaxSmallTotal \cup 2990..3010

Record(item, descricao, unid, quant, valor_unit, valor_total) ==
    [item |-> item, descricao |-> descricao, unid |-> unid, quant |-> quant,
     valor_unit |-> valor_unit, valor_total |-> valor_total]

FixInputs ==
    {Record(<<1>>, "Cabo", "UN", qt, vu, vt) :
        qt \in {NONE} \cup {<<q>> : q \in 0..MaxQuant},
        vu \in {NONE} \cup {FromCents(c) : c \in UnitPriceCents},
        vt \in {NONE} \cup {FromCents(c) : c \in TotalCents}}

InitFix ==
    /\ pc = "start"
    /\ arg \in FixInputs
    /\ res = NONE

ValidateAndFix ==
    /\ pc = "start"
    /\ pc' = "fixed"
    /\ res' = validate_and_fix(arg)
    /\ UNCHANGED arg

NextFix == ValidateAndFix

SpecFix == InitFix /\ [][NextFix]_vars

\* the hundredths of a float with at most two decimals
C5_Cents(m) == m[1] * Pow10(2 - m[2])

\* C5: with valor_unit and quant present and candidate = round(valor_unit *
\* quant, 2), valor_total becomes the candidate if and only if the extracted
\* valor_total is null or differs from the candidate by at most 0.05, and is
\* kept otherwise; with valor_unit or quant null it is left unchanged.
C5_TolerantReconciliation ==
    pc = "fixed" =>
        IF arg.valor_unit # NONE /\ arg.quant # NONE
        THEN LET candidate == C5_Cents(arg.valor_unit) * arg.quant[1]
                 within == \/ arg.valor_total = NONE
                           \/ Abs(candidate - C5_Cents(arg.valor_total))
                                 <= C5_Cents(TOLERANCE)
             IN  /\ within <=> res.valor_total = FromCents(candidate)
                 /\ ~within => res.valor_total = arg.valor_total
        ELSE res.valor_total = arg.valor_total

(***************************************************************************)
(* Specification of build_issues applied to one validated record           *)
(***************************************************************************)
IssueInputs ==
    {Record(item, descricao, unid, qt, vu, vt) :
        item \in {NONE, <<0>>, <<7>>},
        descricao \in {"", "Cabo"},
        unid \in {"", "UN", "PÇ", "CONJ", "XX"},
        qt \in {NONE, <<0>>, <<3>>},
        vu \in {NONE, FromCents(0), FromCents(150)},
        vt \in {NONE, FromCents(0), FromCents(450)}}

InitIssues ==
    /\ pc = "start"
    /\ arg \in IssueInputs
    /\ res = NONE

BuildIssues ==
    /\ pc = "start"
    /\ pc' = "issued"
    /\ res' = build_issues(arg)
    /\ UNCHANGED arg

NextIssues == BuildIssues

SpecIssues == InitIssues /\ [][NextIssues]_vars

C7_NullOrEmpty(k) ==
    IF k \in {"descricao", "unid"} THEN arg[k] = "" ELSE arg[k] = NONE

C7_Absent ==
    {k \in {"item", "descricao", "unid", "quant", "valor_unit", "valor_total"} :
        C7_NullOrEmpty(k)}

\* C7: build_issues yields at most one issue and never both kinds: with a null
\* or empty field, one missing-fields issue listing exactly those fields;
\* otherwise one unexpected-unit warning exactly when unid is not a known
\* unit; otherwise nothing.
C7_OneIssuePerRecord ==
    pc = "issued" =>
        /\ ~({"missing", "warning"} \subseteq DOMAIN res)
        /\ IF C7_Absent # {}
           THEN /\ "missing" \in DOMAIN res
                /\ {res.missing[i] : i \in 1..Len(res.missing)} = C7_Absent
                /\ Len(res.missing) = Cardinality(C7_Absent)
           ELSE IF arg.unid \notin UNIT_SET
                THEN "warning" \in DOMAIN res
                ELSE res = NONE

\* a record missing only quant and valor_unit got one issue listing both
C7_Witness ==
    /\ pc = "issued"
    /\ C7_Absent = {"quant", "valor_unit"}
    /\ res.missing = <<"quant", "valor_unit">>

(***************************************************************************)
(* Specification of detect_header_and_map applied to the rows of a table   *)
(***************************************************************************)
MaxHeaderRows == 3

HeaderRowChoices ==
    {<<"ITEM", "DESCRIÇÃO", "UNID.", "QUANT.", "VALOR UNIT.", "VALOR TOTAL">>,
     <<"Item", "Descrição do Item", "Unidade", "Qtd", "Vlr Unit.", "Total">>,
     <<"ITEM", "DESCRIÇÃO", "UNID.", "VALOR\nUNIT.", "VALOR TOTAL">>,
     <<"ITEM", "DESCRICAO", "UND", "PREÇO TOTAL">>,
     <<"ITENS", "DESCR", "UNI", "QUANTIDADE", "VALOR", "TOTAL">>}

RECURSIVE SeqsOver(_, _)
SeqsOver(choices, n) ==
    IF n = 0 THEN {<<>>}
    ELSE LET p == SeqsOver(choices, n - 1)
         IN  p \cup {Append(q, r) : q \in p, r \in choices}

HeaderInputs == SeqsOver(HeaderRowChoices, MaxHeaderRows)

InitHeader ==
    /\ pc = "start"
    /\ arg \in HeaderInputs
    /\ res = NONE

DetectHeader ==
    /\ pc = "start"
    /\ pc' = "detected"
    /\ res' = detect_header_and_map(arg)
    /\ UNCHANGED arg

NextHeader == DetectHeader

SpecHeader == InitHeader /\ [][NextHeader]_vars

\* does some cell of the row hold, normalized and upper-cased, an alias of key k
C2_Matches(row, k) ==
    \E j \in 1..Len(row) : \E alias \in HEADER_ALIASES[k] :
        Contains(Upper(normalize_text(row[j])), alias)

C2_Score(row) == Cardinality({i \in 1..Len(CANON_KEYS) : C2_Matches(row, CANON_KEYS[i])})

C2_MaxScore(rows) ==
    LET scores == {C2_Score(rows[i]) : i \in 1..Len(rows)}
    IN  CHOOSE m \in scores : \A x \in scores : x <= m

\* C2: whenever a header is selected, it is the row of smallest index whose
\* score is the maximum over all rows; a later row of equal or lower score
\* never replaces an earlier one.
C2_EarliestBestRow ==
    pc = "detected" /\ res.error # HEADER_NOT_FOUND =>
        LET max == C2_MaxScore(arg)
        IN  /\ res.best_score = max
            /\ C2_Score(arg[res.best_idx + 1]) = max
            /\ \A i \in 1..res.best_idx : C2_Score(arg[i]) < max

\* a header was selected although a later row has the same score
C2_Witness ==
    /\ pc = "detected"
    /\ res.error = ""
    /\ res.best_idx = 1
    /\ \E i \in (res.best_idx + 2)..Len(arg) : C2_Score(arg[i]) = res.best_score

C4_BestScore == IF arg = <<>> THEN -1 ELSE C2_MaxScore(arg)

C4_Unmatched(row) == {k \in DOMAIN HEADER_ALIASES : ~C2_Matches(row, k)}

C4_Leftmost(row, k) ==
    CHOOSE j \in 0..(Len(row) - 1) :
        /\ C2_Matches(<<row[j + 1]>>, k)
        /\ \A h \in 0..(j - 1) : ~C2_Matches(<<row[h + 1]>>, k)

\* C4: three outcomes, decided by the best row score: below 4 the
\* header-not-found error; 4 or 5 the column-mapping error naming exactly the
\* fields no cell of the selected row matches; 6 a map of all six fields, each
\* to the leftmost matching column.  No map is returned with an error.
C4_ThreeOutcomes ==
    pc = "detected" =>
        LET best == C4_BestScore
        IN  /\ best < 4 =>
                  res.error = HEADER_NOT_FOUND /\ res.col_map = NO_MAP
            /\ best \in {4, 5} =>
                  /\ res.error = COLUMNS_UNMAPPED
                  /\ res.col_map = NO_MAP
                  /\ {res.missing[i] : i \in 1..Len(res.missing)}
                        = C4_Unmatched(arg[res.best_idx + 1])
                  /\ Len(res.missing) = 6 - best
            /\ best = 6 =>
                  /\ res.error = ""
                  /\ DOMAIN res.col_map = DOMAIN HEADER_ALIASES
                  /\ \A k \in DOMAIN res.col_map :
                        res.col_map[k] = C4_Leftmost(arg[res.best_idx + 1], k)
            /\ res.error \in {"", HEADER_NOT_FOUND, COLUMNS_UNMAPPED}

\* a header whose "DESCRIÇÃO DO ITEM" cell also matches ITEM was mapped, ITEM
\* to the column on its left
C4_Witness ==
    /\ pc = "detected"
    /\ res.error = ""
    /\ C2_Matches(<<arg[res.best_idx + 1][2]>>, "ITEM")
    /\ res.col_map["ITEM"] = 0
    /\ res.col_map["DESCRIÇÃO"] = 1

(***************************************************************************)
(* Specification of extract_table_from_pdf applied to the raw rows that    *)
(* the table detector found, page after page and table after table         *)
(***************************************************************************)
MaxRows == 2

MaxDataRows == 3

HEADER_ROW == <<"ITEM", "DESCRIÇÃO", "UNID.", "QUANT.", "VALOR UNIT.", "VALOR TOTAL">>

DataRowChoices ==
    {<<"2", "Tubo 1/2 \"", "un.", "3", "10,00", "30,05">>,
     <<"1", "Cabo", "KG", "2", "R$ 1,50", "">>,
     <<"", "Frete", "XX">>,
     <<"2", "Fita R$ 5,00", "M", "1", "5,00", "5,00">>,
     <<"", "VALOR TOTAL R$ 12.345,67">>}

\* a row of empty cells, a row that is None, and the header
OtherRowChoices == {<<"", NULL>>, <<>>, HEADER_ROW}

ExtractInputs ==
    SeqsOver(DataRowChoices \cup OtherRowChoices, MaxRows)
    \cup {<<HEADER_ROW>> \o body : body \in SeqsOver(DataRowChoices, MaxDataRows)}

InitExtract ==
    /\ pc = "start"
    /\ arg \in ExtractInputs
    /\ res = NONE

Extract ==
    /\ pc = "start"
    /\ pc' = "extracted"
    /\ res' = extract_table_from_pdf(arg)
    /\ UNCHANGED arg

NextExtract == Extract

SpecExtract == InitExtract /\ [][NextExtract]_vars

\* the row's text holds "VALOR TOTAL" followed by a money amount
C1_TotalsLine(row) ==
    LET joined == Join(UpperCells(row))
    IN  \E i \in 1..(Len(joined) - 10) :
            /\ SubSeq(joined, i, i + 10) = "VALOR TOTAL"
            /\ parse_money(SubSeq(joined, i + 11, Len(joined))) # NONE

\* the rows with text that follow the header, up to the first totals line
C1_RowsBeforeTotals ==
    LET all == AllRows(arg)
        after == SubSeq(all, res.header_idx + 2, Len(all))
        stops == {i \in 1..Len(after) : C1_TotalsLine(after[i])}
    IN  IF stops = {} THEN after
        ELSE SubSeq(after, 1, (CHOOSE i \in stops : \A j \in stops : i <= j) - 1)

\* C1: the scan of the rows after the header stops at the first row whose text
\* holds "VALOR TOTAL" with a money amount: neither that row nor any row after
\* it produces a record.
C1_StopsAtTotalsLine ==
    pc = "extracted" /\ res.raised = "" /\ res.header = "called" =>
        Len(res.rows) = Len(C1_RowsBeforeTotals)

C6_SameItem(a, b) == a.item = b.item

\* C6: the returned rows are in ascending order of item number, the records
\* without item number after all the numbered ones, and records of equal item
\* (or both without) in the order in which their rows were scanned.
C6_SortedStable ==
    pc = "extracted" =>
        /\ Len(res.rows) = Len(res.scanned)
        /\ \A i, j \in 1..Len(res.rows) :
              i < j =>
                 /\ res.rows[i].item = NONE => res.rows[j].item = NONE
                 /\ res.rows[i].item # NONE /\ res.rows[j].item # NONE
                       => res.rows[i].item[1] <= res.rows[j].item[1]
        /\ \A i \in 1..Len(res.scanned) :
              SelectSeq(res.rows, LAMBDA r : C6_SameItem(r, res.scanned[i]))
                 = SelectSeq(res.scanned, LAMBDA r : C6_SameItem(r, res.scanned[i]))

\* a record without item number was scanned first and returned last, behind
\* two records of equal item that kept their order
C6_Witness ==
    /\ pc = "extracted"
    /\ Len(res.rows) = 3
    /\ res.scanned[1].item = NONE
    /\ res.rows[3] = res.scanned[1]
    /\ res.rows[1].item = res.rows[2].item
    /\ res.rows[1] # res.rows[2]
    /\ res.rows[1] = res.scanned[2]

C8_NoText ==
    \A i \in 1..Len(arg) : \A j \in 1..Len(arg[i]) : normalize_text(arg[i][j]) = ""

\* C8: when no extracted row has a cell with text, the result is rows = [] and
\* issues = one entry carrying an error message, header detection is not run
\* and nothing is raised.
C8_EmptyInput ==
    pc = "extracted" /\ C8_NoText =>
        /\ res.raised = ""
        /\ res.header = "not called"
        /\ res.rows = <<>>
        /\ Len(res.issues) = 1
        /\ DOMAIN res.issues[1] = {"error"}
        /\ res.issues[1].error # ""

\* rows were found but none holds text
C8_Witness ==
    /\ pc = "extracted"
    /\ Len(arg) = 2
    /\ \E j \in 1..Len(arg[1]) : arg[1][j] = NULL
    /\ C8_NoText
    /\ res.issues = <<[error |-> NO_TABLE]>>

====
